---------------------------- MODULE Spec2Model ----------------------------
(***************************************************************************)
(* Model of the two structured-output agents of the repository:            *)
(*   src/starter/src/risk_analyst_agent.py       (RiskAnalystAgent)        *)
(*   src/starter/src/compliance_officer_agent.py (ComplianceOfficerAgent)  *)
(*                                                                         *)
(* Text is modelled as TLA+ strings, handled character by character with   *)
(* SubSeq, Len and \o, so that splitting, stripping, lower-casing and      *)
(* parsing are computed the way the Python code computes them.             *)
(***************************************************************************)
EXTENDS Integers, Sequences, FiniteSets, TLC

VARIABLES
    inv,        \* per invocation: the position and locals of one agent call
    auditLog,   \* ExplainabilityLogger: the entries appended so far
    probe       \* harness of the pure functions: the input drawn, the result

vars == <<inv, auditLog, probe>>

-----------------------------------------------------------------------------
(* Python str primitives                                                   *)

\* A backquote; written this way because the lexer pairs a lone backquote
\* with a later quote.
Tick == SubSeq("`'", 1, 1)

\* The fence marker the extractors split on.
FENCE == Tick \o Tick \o Tick

\* The labeled fence marker.
FENCE_JSON == FENCE \o "json"

\* s[i] (1-based); "" outside the text
Char(s, i) == IF i >= 1 /\ i <= Len(s) THEN SubSeq(s, i, i) ELSE ""

Min(S) == CHOOSE x \in S : \A y \in S : x <= y

Max(S) == CHOOSE x \in S : \A y \in S : x >= y

\* str.isspace for the characters of the model
IsSpace(c) == c \in {" ", "\n", "\t", "\r"}

StartsAt(s, sub, i) ==
    /\ i >= 1
    /\ i + Len(sub) - 1 <= Len(s)
    /\ SubSeq(s, i, i + Len(sub) - 1) = sub

\* the least element of S, or d when S is empty
MinOr(S, d) == IF S = {} THEN d ELSE Min(S)

\* str.find(sub, from), 1-based; 0 when absent
Find(s, sub, from) ==
    MinOr({i \in from..(Len(s) - Len(sub) + 1) : StartsAt(s, sub, i)}, 0)

\* `sub in s`
Contains(s, sub) == Find(s, sub, 1) # 0

\* s[i:] (1-based i)
From(s, i) == IF i > Len(s) THEN "" ELSE SubSeq(s, i, Len(s))

\* s[:i-1] (the text before 1-based position i)
Before(s, i) == IF i <= 1 THEN "" ELSE SubSeq(s, 1, i - 1)

RECURSIVE Split(_, _)

\* the pieces of s, the first occurrence of sep being at i (0: none)
SplitAt(s, sep, i) ==
    IF i = 0 THEN <<s>>
    ELSE <<Before(s, i)>> \o Split(From(s, i + Len(sep)), sep)

\* str.split(sep): the pieces between the non-overlapping occurrences of sep,
\* found left to right
Split(s, sep) == SplitAt(s, sep, Find(s, sep, 1))

\* s cut down to the positions from the least to the greatest of keep
Span(s, keep) == IF keep = {} THEN "" ELSE SubSeq(s, Min(keep), Max(keep))

\* str.strip()
Strip(s) == Span(s, {i \in 1..Len(s) : ~IsSpace(Char(s, i))})

RECURSIVE WordEnd(_, _)
\* the position after the run of non-whitespace that holds position j
WordEnd(s, j) ==
    IF j > Len(s) \/ IsSpace(Char(s, j)) THEN j ELSE WordEnd(s, j + 1)

\* a word starts at j: no whitespace there, whitespace (or nothing) before
IsWordStart(s, j) ==
    ~IsSpace(Char(s, j)) /\ (j = 1 \/ IsSpace(Char(s, j - 1)))

RECURSIVE WordsIn(_, _, _)
\* the words of s that start within a..b, in text order
WordsIn(s, a, b) ==
    IF a > b THEN <<>>
    ELSE IF a = b THEN
        (IF IsWordStart(s, a) THEN <<SubSeq(s, a, WordEnd(s, a) - 1)>> ELSE <<>>)
    ELSE LET mid == (a + b) \div 2
         IN  WordsIn(s, a, mid) \o WordsIn(s, mid + 1, b)

\* str.split() with no separator: the whitespace-separated words
SplitWords(s) == WordsIn(s, 1, Len(s))

UpperCase == "ABCDEFGHIJKLMNOPQRSTUVWXYZ"

LowerCase == "abcdefghijklmnopqrstuvwxyz"

\* the lower-case letter for the k-th upper-case one; c itself for k = 0
LowerAt(c, k) == IF k # 0 THEN Char(LowerCase, k) ELSE c

LowerChar(c) == LowerAt(c, Find(UpperCase, c, 1))

RECURSIVE LowerRange(_, _, _)
\* the characters a..b of s, each lower-cased
LowerRange(s, a, b) ==
    IF a > b THEN ""
    ELSE IF a = b THEN LowerChar(Char(s, a))
    ELSE LET mid == (a + b) \div 2
         IN  LowerRange(s, a, mid) \o LowerRange(s, mid + 1, b)

\* str.lower()
Lower(s) == LowerRange(s, 1, Len(s))

RECURSIVE JoinRange(_, _, _, _)
JoinRange(parts, sep, a, b) ==
    IF a > b THEN ""
    ELSE IF a = b THEN parts[a]
    ELSE LET mid == (a + b) \div 2
         IN  JoinRange(parts, sep, a, mid) \o sep \o JoinRange(parts, sep, mid + 1, b)

\* sep.join(parts)
Join(parts, sep) == JoinRange(parts, sep, 1, Len(parts))

-----------------------------------------------------------------------------
(* json.loads: the JSON grammar over the characters of the model (strings  *)
(* without escapes, numbers without exponent).  A parsed value is kept as  *)
(* its kind, its text with insignificant whitespace removed (canon) and,   *)
(* for objects and arrays, its members.                                    *)

\* Python None / a present value
None == <<>>

Some(x) == <<x>>

ParseFail == [ok |-> FALSE, next |-> 0, kind |-> "", canon |-> "", fields |-> <<>>]

Parsed(n, k, c, f) == [ok |-> TRUE, next |-> n, kind |-> k, canon |-> c, fields |-> f]

IsDigit(c) == c \in {"0", "1", "2", "3", "4", "5", "6", "7", "8", "9"}

\* the first position from i on that holds no JSON whitespace
SkipWs(s, i) == MinOr({j \in i..Len(s) : ~IsSpace(Char(s, j))}, Len(s) + 1)

\* the first position from i on that holds no digit
DigitsEnd(s, i) == MinOr({j \in i..Len(s) : ~IsDigit(Char(s, j))}, Len(s) + 1)

\* a string literal opening at i and closing at j (0: never)
StringLiteral(s, i, j) ==
    IF j = 0 THEN ParseFail
    ELSE IF \E k \in (i + 1)..(j - 1) : Char(s, k) \in {"\n", "\t", "\r", "\\"} THEN ParseFail
    ELSE Parsed(j + 1, "string", SubSeq(s, i, j), <<>>)

\* a string literal opening at i
ParseString(s, i) == StringLiteral(s, i, Find(s, "\"", i + 1))

\* the number from i to before stop, with or without a fraction
NumberUpTo(s, i, stop, hasFrac) ==
    Parsed(stop, IF hasFrac THEN "float" ELSE "int", SubSeq(s, i, stop - 1), <<>>)

\* the integer part ends before intEnd, the digits after a point before fracEnd
NumberWithFraction(s, i, intEnd, fracEnd) ==
    IF Char(s, intEnd) = "." /\ fracEnd > intEnd + 1
    THEN NumberUpTo(s, i, fracEnd, TRUE)
    ELSE NumberUpTo(s, i, intEnd, FALSE)

\* the digits start at a and the integer part ends before intEnd
NumberFrom(s, i, a, intEnd) ==
    IF intEnd = a THEN ParseFail
    ELSE NumberWithFraction(s, i, intEnd, DigitsEnd(s, intEnd + 1))

\* the integer part that starts at a: 0, or digits not led by 0
IntegerAt(s, i, a) ==
    NumberFrom(s, i, a, IF Char(s, a) = "0" THEN a + 1 ELSE DigitsEnd(s, a))

\* a number at i: -?(0|[1-9][0-9]*)(\.[0-9]+)?
ParseNumber(s, i) == IntegerAt(s, i, IF Char(s, i) = "-" THEN i + 1 ELSE i)

\* dict[key] = value: a repeated key keeps its place and takes the new value
PutMember(acc, m) ==
    IF \E k \in 1..Len(acc) : acc[k].key = m.key
    THEN [k \in 1..Len(acc) |-> IF acc[k].key = m.key THEN m ELSE acc[k]]
    ELSE Append(acc, m)

MemberText(m) == IF m.key = None THEN m.canon ELSE "\"" \o m.key[1] \o "\":" \o m.canon

CanonOf(open, members, close) ==
    open \o Join([k \in 1..Len(members) |-> MemberText(members[k])], ",") \o close

RECURSIVE ParseValue(_, _), ParseElements(_, _, _), ParseMembers(_, _, _)

\* an array whose first non-blank position after [ is j
ArrayFrom(s, j) ==
    IF Char(s, j) = "]" THEN Parsed(j + 1, "array", "[]", <<>>)
    ELSE ParseElements(s, j, <<>>)

\* an object whose first non-blank position after { is j
ObjectFrom(s, j) ==
    IF Char(s, j) = "}" THEN Parsed(j + 1, "object", "{}", <<>>)
    ELSE ParseMembers(s, j, <<>>)

\* the value that starts at i (no leading whitespace)
ParseValue(s, i) ==
    IF Char(s, i) = "\"" THEN ParseString(s, i)
    ELSE IF Char(s, i) = "-" \/ IsDigit(Char(s, i)) THEN ParseNumber(s, i)
    ELSE IF StartsAt(s, "true", i) THEN Parsed(i + 4, "bool", "true", <<>>)
    ELSE IF StartsAt(s, "false", i) THEN Parsed(i + 5, "bool", "false", <<>>)
    ELSE IF StartsAt(s, "null", i) THEN Parsed(i + 4, "null", "null", <<>>)
    ELSE IF Char(s, i) = "[" THEN ArrayFrom(s, SkipWs(s, i + 1))
    ELSE IF Char(s, i) = "{" THEN ObjectFrom(s, SkipWs(s, i + 1))
    ELSE ParseFail

\* after the elements all, position j holds a comma or the closing bracket
ElementsNext(s, all, j) ==
    IF Char(s, j) = "," THEN ParseElements(s, SkipWs(s, j + 1), all)
    ELSE IF Char(s, j) = "]" THEN Parsed(j + 1, "array", CanonOf("[", all, "]"), all)
    ELSE ParseFail

\* the element v parsed after the elements acc
ElementParsed(s, acc, v) ==
    IF ~v.ok THEN ParseFail
    ELSE ElementsNext(s, Append(acc, [key |-> None, kind |-> v.kind, canon |-> v.canon]),
                      SkipWs(s, v.next))

\* the elements of an array from i on, acc holding those before
ParseElements(s, i, acc) == ElementParsed(s, acc, ParseValue(s, i))

\* after the members all, position m holds a comma or the closing brace
MembersNext(s, all, m) ==
    IF Char(s, m) = "," THEN ParseMembers(s, SkipWs(s, m + 1), all)
    ELSE IF Char(s, m) = "}" THEN Parsed(m + 1, "object", CanonOf("{", all, "}"), all)
    ELSE ParseFail

\* the value v parsed for the key after the members acc
MemberParsed(s, acc, key, v) ==
    IF ~v.ok THEN ParseFail
    ELSE MembersNext(s, PutMember(acc, [key |-> Some(key), kind |-> v.kind,
                                        canon |-> v.canon]),
                     SkipWs(s, v.next))

\* after the key, position j must hold the colon
MemberColon(s, acc, key, j) ==
    IF Char(s, j) # ":" THEN ParseFail
    ELSE MemberParsed(s, acc, key, ParseValue(s, SkipWs(s, j + 1)))

\* the key k parsed after the members acc
MemberKey(s, acc, k) ==
    IF ~k.ok THEN ParseFail
    ELSE MemberColon(s, acc, SubSeq(k.canon, 2, Len(k.canon) - 1), SkipWs(s, k.next))

\* the members of an object from i on, acc holding those before
ParseMembers(s, i, acc) ==
    IF Char(s, i) # "\"" THEN ParseFail ELSE MemberKey(s, acc, ParseString(s, i))

\* the outcome of json.loads once the value v is parsed from the start of s
Loaded(s, v) ==
    IF ~v.ok THEN
        [ok |-> FALSE, kind |-> "", canon |-> "", fields |-> <<>>, error |-> "Expecting value"]
    ELSE IF SkipWs(s, v.next) # Len(s) + 1 THEN
        [ok |-> FALSE, kind |-> "", canon |-> "", fields |-> <<>>, error |-> "Extra data"]
    ELSE
        [ok |-> TRUE, kind |-> v.kind, canon |-> v.canon, fields |-> v.fields, error |-> ""]

\* json.loads(s): ok with the value, or the JSONDecodeError text
JsonLoads(s) == Loaded(s, ParseValue(s, SkipWs(s, 1)))

\* the value json.loads returned
AsValue(loaded) == [kind |-> loaded.kind, canon |-> loaded.canon, fields |-> loaded.fields]

-----------------------------------------------------------------------------
(* Response extraction: _extract_json_from_response of each agent          *)

\* the outcome of a Python call: an exception raised, or a value returned
Raise(exc, msg) == [raised |-> TRUE, exc |-> exc, msg |-> msg, value |-> None]

Return(v) == [raised |-> FALSE, exc |-> "", msg |-> "", value |-> Some(v)]

\* the text str() gives for `"```json" in None`
NoneTypeError == "argument of type 'NoneType' is not iterable"

\* risk_analyst_agent.py 177-180: the text the risk extractor goes on with
RiskSelect(rc) ==
    IF Contains(rc, FENCE_JSON) THEN Split(Split(rc, FENCE_JSON)[2], FENCE)[1]
    ELSE IF Contains(rc, FENCE) THEN Split(rc, FENCE)[2]
    ELSE rc

\* risk_analyst_agent.py 181-184: the stripped text, or the error for none
RiskStripped(stripped) ==
    IF stripped = "" THEN Raise("ValueError", "No JSON content found: No JSON content found")
    ELSE Return(stripped)

\* RiskAnalystAgent._extract_json_from_response: returns the stripped text
\* (it does not parse); every exception is re-raised as ValueError
RiskExtract(content) ==
    IF content = None THEN Raise("ValueError", "No JSON content found: " \o NoneTypeError)
    ELSE RiskStripped(Strip(RiskSelect(content[1])))

\* the same selection with the closing fence never cut off
ComplianceSelectNoClose(rc) ==
    IF Contains(rc, FENCE_JSON) THEN Split(rc, FENCE_JSON)[2]
    ELSE IF Contains(rc, FENCE) THEN Split(rc, FENCE)[2]
    ELSE rc

\* the same selection with the two tests in the other order
ComplianceSelectAnyFenceFirst(rc) ==
    IF Contains(rc, FENCE) THEN Split(Split(rc, FENCE)[2], FENCE)[1]
    ELSE rc

\* compliance_officer_agent.py 169-172: the text the extractor goes on with
ComplianceSelect(rc) ==
    IF Contains(rc, FENCE_JSON) THEN Split(Split(rc, FENCE_JSON)[2], FENCE)[1]
    ELSE IF Contains(rc, FENCE) THEN Split(Split(rc, FENCE)[2], FENCE)[1]
    ELSE rc

ParseErrorPrefix == "Failed to parse Risk Analyst JSON output: "

\* compliance_officer_agent.py 178: the value of json.loads, or its error
ComplianceLoaded(loaded) ==
    IF ~loaded.ok THEN Raise("ValueError", ParseErrorPrefix \o loaded.error)
    ELSE Return(AsValue(loaded))

\* compliance_officer_agent.py 174-178
ComplianceStripped(stripped) ==
    IF stripped = "" THEN Raise("ValueError", ParseErrorPrefix \o "No JSON content found")
    ELSE ComplianceLoaded(JsonLoads(stripped))

\* ComplianceOfficerAgent._extract_json_from_response: returns json.loads of
\* the stripped text; every exception is re-raised as ValueError
ComplianceExtract(content) ==
    IF content = None THEN Raise("ValueError", ParseErrorPrefix \o NoneTypeError)
    ELSE ComplianceStripped(Strip(ComplianceSelect(content[1])))

AgentExtract(agent, content) ==
    IF agent = "RiskAnalyst" THEN RiskExtract(content) ELSE ComplianceExtract(content)

AgentSelect(agent, rc) ==
    IF agent = "RiskAnalyst" THEN RiskSelect(rc) ELSE ComplianceSelect(rc)

-----------------------------------------------------------------------------
(* The responses the extractors are run on                                 *)

\* the most fenced blocks a response of the model holds
MaxBlocks == 2

PayloadA == "{\"case_id\":\"C1\"}"

PayloadB == "\n{\"word_count\": 3}\n"

\* a valid payload holding a fence marker inside a string value
PayloadFenced == "{\"narrative\":\"use " \o FENCE \o " here\"}"

\* what a fenced block, or an unfenced response, may hold
Bodies == {PayloadA, PayloadB, "", " \n", "no json", "[1]"}

Proses == {"", "Here is the result:\n"}

Block == [labeled : BOOLEAN, body : Bodies]

BlockSeqs == UNION {[1..n -> Block] : n \in 0..MaxBlocks}

RECURSIVE RenderBlocks(_)
RenderBlocks(blocks) ==
    IF blocks = <<>> THEN ""
    ELSE (IF blocks[1].labeled THEN FENCE_JSON ELSE FENCE) \o blocks[1].body \o FENCE
         \o "\n" \o RenderBlocks(Tail(blocks))

\* a response: prose, then the blocks; without blocks, the bare text
Render(pre, blocks, bare) ==
    IF blocks = <<>> THEN pre \o bare ELSE pre \o RenderBlocks(blocks)

ExtractInputs ==
    {[fn |-> "extract", stage |-> "input", pre |-> pre, blocks |-> bs, bare |-> b,
      content |-> Some(Render(pre, bs, b)), agent |-> "", result |-> None] :
        pre \in Proses, bs \in BlockSeqs \ {<<>>}, b \in {""}}
    \cup
    {[fn |-> "extract", stage |-> "input", pre |-> pre, blocks |-> <<>>, bare |-> b,
      content |-> Some(Render(pre, <<>>, b)), agent |-> "", result |-> None] :
        pre \in Proses, b \in Bodies}
    \cup
    {[fn |-> "extract", stage |-> "input", pre |-> "", blocks |-> <<>>, bare |-> "",
      content |-> None, agent |-> "", result |-> None]}

InitExtract ==
    /\ inv = <<>>
    /\ auditLog = <<>>
    /\ probe \in ExtractInputs

\* RiskAnalystAgent._extract_json_from_response(content)
ExtractRisk ==
    /\ probe.fn = "extract" /\ probe.stage = "input"
    /\ probe' = [probe EXCEPT !.stage = "done", !.agent = "RiskAnalyst",
                              !.result = RiskExtract(probe.content)]
    /\ UNCHANGED <<inv, auditLog>>

\* ComplianceOfficerAgent._extract_json_from_response(content)
ExtractCompliance ==
    /\ probe.fn = "extract" /\ probe.stage = "input"
    /\ probe' = [probe EXCEPT !.stage = "done", !.agent = "ComplianceOfficer",
                              !.result = ComplianceExtract(probe.content)]
    /\ UNCHANGED <<inv, auditLog>>

NextExtract == ExtractRisk \/ ExtractCompliance

SpecExtract == InitExtract /\ [][NextExtract]_vars

\* an extractor has been run on a drawn response
Extracted == probe.fn = "extract" /\ probe.stage = "done"

\* the block the selection rule of the code settles on: the first labeled
\* block when there is one, else the first block
ChosenBlock(blocks) ==
    LET labeled == {k \in 1..Len(blocks) : blocks[k].labeled}
    IN  IF labeled = {} THEN blocks[1] ELSE blocks[Min(labeled)]

\* the text from position a up to the next fence marker (or the end)
UpToFence(text, a) ==
    LET j == Find(text, FENCE, a)
    IN  IF j = 0 THEN From(text, a) ELSE SubSeq(text, a, j - 1)

\* by position: the text after the first labeled marker when there is one,
\* else after the first fence marker, up to the next fence marker
MarkedContent(text) ==
    LET i == Find(text, FENCE_JSON, 1)
    IN  IF i # 0 THEN UpToFence(text, i + Len(FENCE_JSON))
        ELSE UpToFence(text, Find(text, FENCE, 1) + Len(FENCE))

\* C8 as stated: with more than one fenced block, the extractor uses the
\* content of the first block in text order, labeled or not.
C8_FirstBlockInTextOrder ==
    (Extracted /\ Len(probe.blocks) >= 2)
        => probe.result = AgentExtract(probe.agent, Some(probe.blocks[1].body))

\* C8 amended: with more than one fenced block, the extractor uses the content
\* that follows the first labeled marker when the response holds one (also
\* when an unlabeled block comes before it), and otherwise the content of the
\* first block; no block after the chosen one determines the result.
C8_LabeledBlockElseFirst ==
    (Extracted /\ Len(probe.blocks) >= 2)
        => /\ probe.result = AgentExtract(probe.agent, Some(ChosenBlock(probe.blocks).body))
           /\ probe.result = AgentExtract(probe.agent, Some(MarkedContent(probe.content[1])))

\* an unlabeled block followed by a labeled one: the labeled one is used
C8_Witness ==
    /\ Extracted
    /\ probe.agent = "ComplianceOfficer"
    /\ probe.blocks = <<[labeled |-> FALSE, body |-> PayloadA],
                        [labeled |-> TRUE, body |-> PayloadB]>>
    /\ ~probe.result.raised
    /\ probe.result.value[1].canon = JsonLoads(PayloadB).canon
    /\ probe.result.value[1].canon # JsonLoads(PayloadA).canon

\* the selected content cannot serve as a payload: nothing but whitespace, or
\* not the text of a JSON object
IsObject(loaded) == loaded.ok /\ loaded.kind = "object"

Unusable(selected) == Strip(selected) = "" \/ ~IsObject(JsonLoads(Strip(selected)))

\* C9: on an empty or whitespace-only response, an empty or whitespace-only
\* fenced block, or selected content that is not a JSON object, the extractor
\* of either agent itself raises instead of returning a value.
C9_ExtractorRaisesOnUnusableContent ==
    (Extracted /\ probe.content # None
        /\ Unusable(AgentSelect(probe.agent, probe.content[1])))
        => probe.result.raised

-----------------------------------------------------------------------------
(* Round trip: one payload in a labeled fence, an unlabeled fence, no fence *)

\* a structured payload: the text of a JSON object
IsPayload(text) == IsObject(JsonLoads(text))

PayloadTexts ==
    {p \in {PayloadA, PayloadB, PayloadFenced, "{}", "{\"a\":[1, 2]} ", "[1]", "no json"} :
        IsPayload(p)}

ProseBefore == {"", "Here is the result:\n", "As code: " \o Tick}

ProseAfter == {"", "\nDone.", " " \o Tick \o "ok" \o Tick}

RoundTripInputs ==
    {[fn |-> "roundtrip", stage |-> "input", payload |-> p, pre |-> pre, post |-> post,
      agent |-> "", labeled |-> None, unlabeled |-> None, bare |-> None] :
        p \in PayloadTexts, pre \in ProseBefore, post \in ProseAfter}

InitRoundTrip ==
    /\ inv = <<>>
    /\ auditLog = <<>>
    /\ probe \in RoundTripInputs

\* the three responses around probe.payload, each given to the extractor
RoundTrip(agent) ==
    /\ probe.fn = "roundtrip" /\ probe.stage = "input"
    /\ probe' = [probe EXCEPT
            !.stage = "done", !.agent = agent,
            !.labeled = AgentExtract(agent,
                Some(probe.pre \o FENCE_JSON \o probe.payload \o FENCE \o probe.post)),
            !.unlabeled = AgentExtract(agent,
                Some(probe.pre \o FENCE \o probe.payload \o FENCE \o probe.post)),
            !.bare = AgentExtract(agent, Some(probe.payload))]
    /\ UNCHANGED <<inv, auditLog>>

RoundTripRisk == RoundTrip("RiskAnalyst")

RoundTripCompliance == RoundTrip("ComplianceOfficer")

NextRoundTrip == RoundTripRisk \/ RoundTripCompliance

SpecRoundTrip == InitRoundTrip /\ [][NextRoundTrip]_vars

RoundTripped == probe.fn = "roundtrip" /\ probe.stage = "done"

\* what the extractor of the agent yields for the payload text itself
PayloadOf(agent, text) ==
    IF agent = "RiskAnalyst" THEN Return(Strip(text))
    ELSE Return(AsValue(JsonLoads(text)))

SamePayload ==
    /\ probe.labeled = PayloadOf(probe.agent, probe.payload)
    /\ probe.unlabeled = PayloadOf(probe.agent, probe.payload)
    /\ probe.bare = PayloadOf(probe.agent, probe.payload)

\* C7 as stated: for every valid payload text, also one with fence-marker
\* characters inside a string value, and whatever prose surrounds the fence,
\* the three responses extract the identical payload.
C7_RoundTripAnyPayload == RoundTripped => SamePayload

\* C7 amended: the three responses extract the identical payload when the
\* payload text holds no fence marker and the prose before the fence does not
\* end in a backquote.
C7_RoundTripFenceFreePayload ==
    (RoundTripped /\ ~Contains(probe.payload, FENCE)
        /\ Char(probe.pre, Len(probe.pre)) # Tick)
        => SamePayload

\* a payload in a fence surrounded by prose came back identical three times
C7_Witness ==
    /\ RoundTripped
    /\ probe.agent = "ComplianceOfficer"
    /\ probe.payload = PayloadB
    /\ probe.pre = "Here is the result:\n" /\ probe.post = "\nDone."
    /\ SamePayload
    /\ ~probe.labeled.raised

-----------------------------------------------------------------------------
(* Narrative compliance rules: _validate_narrative_compliance              *)

\* compliance_officer_agent.py 212: the word limit of a narrative
WordLimit == 120

\* compliance_officer_agent.py 215
RequiredTerms == <<"suspicious", "transaction", "customer", "account">>

\* the verdict with the limit itself rejected (>= for >)
NarrativeVerdictOffByOne(word_count, missing) ==
    IF word_count >= WordLimit THEN
        [compliant |-> FALSE,
         reason |-> Some("Narrative exceeds 120-word limit (" \o ToString(word_count) \o " words)")]
    ELSE IF missing # <<>> THEN
        [compliant |-> FALSE, reason |-> Some("Missing required terms: " \o Join(missing, ", "))]
    ELSE [compliant |-> TRUE, reason |-> None]

\* compliance_officer_agent.py 212-220: the verdict for the word count and the
\* missing terms of a narrative
NarrativeVerdict(word_count, missing) ==
    IF word_count > WordLimit THEN
        [compliant |-> FALSE,
         reason |-> Some("Narrative exceeds 120-word limit (" \o ToString(word_count) \o " words)")]
    ELSE IF missing # <<>> THEN
        [compliant |-> FALSE, reason |-> Some("Missing required terms: " \o Join(missing, ", "))]
    ELSE [compliant |-> TRUE, reason |-> None]

\* compliance_officer_agent.py 216: the required terms not in the text
MissingFrom(lowered) == SelectSeq(RequiredTerms, LAMBDA term : ~Contains(lowered, term))

\* ComplianceOfficerAgent._validate_narrative_compliance(narrative)
ValidateNarrative(narrative) ==
    NarrativeVerdict(Len(SplitWords(narrative)), MissingFrom(Lower(narrative)))

\* the most filler words a narrative of the model is padded with
MaxPad == 121

\* words a narrative may open with, and the required term each one holds
\* ("" for none): forms in other letter case and inside longer words
OpeningWords ==
    <<[text |-> "Suspicious", has |-> "suspicious"],
      [text |-> "transactions", has |-> "transaction"],
      [text |-> "CUSTOMER's", has |-> "customer"],
      [text |-> "account.", has |-> "account"],
      [text |-> "acount", has |-> ""]>>

\* few filler words, or enough to come near and past the limit
Pads == (0..1) \cup {n \in 0..MaxPad : n >= WordLimit - 5}

\* the words of a narrative: the chosen opening words, then pad filler words
NarrativeWords(chosen, pad) ==
    LET opening == SelectSeq(OpeningWords, LAMBDA w : w \in chosen)
    IN  [k \in 1..Len(opening) |-> opening[k].text] \o [k \in 1..pad |-> "x"]

NarrativeInputs ==
    {[fn |-> "narrative", stage |-> "input",
      words |-> NarrativeWords(chosen, pad),
      terms |-> {w.has : w \in chosen} \ {""},
      narrative |-> lead \o Join(NarrativeWords(chosen, pad), sep) \o lead,
      validation |-> None] :
        chosen \in SUBSET {OpeningWords[k] : k \in 1..Len(OpeningWords)},
        pad \in Pads, sep \in {" ", "\n  "}, lead \in {"", " "}}

InitNarrative ==
    /\ inv = <<>>
    /\ auditLog = <<>>
    /\ probe \in NarrativeInputs

\* _validate_narrative_compliance(probe.narrative)
Validate ==
    /\ probe.fn = "narrative" /\ probe.stage = "input"
    /\ probe' = [probe EXCEPT !.stage = "done",
                              !.validation = Some(ValidateNarrative(probe.narrative))]
    /\ UNCHANGED <<inv, auditLog>>

NextNarrative == Validate

SpecNarrative == InitNarrative /\ [][NextNarrative]_vars

Validated == probe.fn = "narrative" /\ probe.stage = "done"

\* by construction of the narrative: the required terms it does not hold
MissingTerms == {RequiredTerms[k] : k \in 1..Len(RequiredTerms)} \ probe.terms

Rejected == ~probe.validation[1].compliant

ReasonHolds(text) ==
    probe.validation[1].reason # None /\ Contains(probe.validation[1].reason[1], text)

\* accepted exactly when within the limit and holding every required term
C5_AcceptIff ==
    Validated =>
        (probe.validation[1].compliant
            <=> (Len(probe.words) <= WordLimit /\ MissingTerms = {}))

\* over the limit: rejected, the reason citing the 120-word limit
C5_OverLimit ==
    (Validated /\ Len(probe.words) > WordLimit)
        => (Rejected /\ ReasonHolds("120-word limit"))

\* C5 as stated: accepted iff at most 120 words and every required term is in
\* the lower-cased text; over 120 words rejected citing the 120-word limit;
\* lacking a required term rejected with a reason naming every missing term.
C5_RejectNamesEveryMissingTerm ==
    /\ C5_AcceptIff
    /\ C5_OverLimit
    /\ (Validated /\ MissingTerms # {})
            => (Rejected /\ \A term \in MissingTerms : ReasonHolds(term))

\* C5 amended: as stated, except that the reason names every missing term
\* only for a narrative of at most 120 words; over 120 words the reason cites
\* the word limit alone.
C5_RejectNamesMissingTermsWithinLimit ==
    /\ C5_AcceptIff
    /\ C5_OverLimit
    /\ (Validated /\ MissingTerms # {} /\ Len(probe.words) <= WordLimit)
            => (Rejected /\ \A term \in MissingTerms : ReasonHolds(term))
    /\ (Validated /\ MissingTerms # {} /\ Len(probe.words) > WordLimit)
            => (Rejected /\ \A term \in MissingTerms : ~ReasonHolds(term))

\* exactly 121 words holding every required term were rejected for the limit
C5_Witness ==
    /\ Validated
    /\ Len(probe.words) = WordLimit + 1
    /\ MissingTerms = {}
    /\ Rejected
    /\ ReasonHolds("120-word limit (121 words)")

-----------------------------------------------------------------------------
(* Prompt composition: _format_case_for_prompt, _format_accounts,          *)
(* _format_transactions.  Amounts are decimals with two places, kept as an *)
(* integer number of cents.                                                *)

\* risk_analyst_agent.py 216 and 251: transactions[:10]
MaxShown == 10

\* the most transactions, and accounts, a case of the model holds
MaxTxns == 12

MaxAccounts == 3

TwoDigits(n) == IF n < 10 THEN "0" \o ToString(n) ELSE ToString(n)

ThreeDigits(n) == IF n < 100 THEN "0" \o TwoDigits(n) ELSE ToString(n)

Abs(n) == IF n < 0 THEN 0 - n ELSE n

RECURSIVE Grouped(_)
\* the digits of n >= 0 in groups of three with commas
Grouped(n) ==
    IF n < 1000 THEN ToString(n)
    ELSE Grouped(n \div 1000) \o "," \o ThreeDigits(n % 1000)

\* format(x, ",.2f")
Money(cents) ==
    (IF cents < 0 THEN "-" ELSE "") \o Grouped(Abs(cents) \div 100) \o "."
        \o TwoDigits(Abs(cents) % 100)

\* str(x) of a decimal with two places
Plain(cents) ==
    (IF cents < 0 THEN "-" ELSE "") \o ToString(Abs(cents) \div 100) \o "."
        \o TwoDigits(Abs(cents) % 100)

RECURSIVE SumCents(_, _)
\* sum(f(x) for x in xs), in cents
SumCents(xs, field) ==
    IF xs = <<>> THEN 0 ELSE xs[1][field] + SumCents(Tail(xs), field)

\* total / n in cents, rounded half to even as the two-place format rounds
Average(total, n) ==
    IF 2 * (total % n) > n \/ (2 * (total % n) = n /\ (total \div n) % 2 = 1)
    THEN (total \div n) + 1
    ELSE total \div n

\* risk_analyst_agent.py 216 and 251: transactions[:10], the first ten in the
\* order given
Shown(transactions) ==
    SubSeq(transactions, 1, IF Len(transactions) < MaxShown THEN Len(transactions) ELSE MaxShown)

RECURSIVE Concat(_)
\* the texts of a sequence, one after the other
Concat(parts) == IF parts = <<>> THEN "" ELSE parts[1] \o Concat(Tail(parts))

AccountLine(a) ==
    "\n- " \o a.account_id \o " (" \o a.account_type \o ", Balance: "
        \o Plain(a.current_balance) \o ", Status: " \o a.status \o ")"

TransactionLine(t) ==
    "\n- " \o t.transaction_date \o ": " \o Plain(t.amount) \o " via " \o t.method
        \o " (" \o t.transaction_type \o ")"

\* risk_analyst_agent.py 203-212: the customer profile and the accounts
ProfileSection(customer, accounts) ==
    "Customer Profile:\n        - ID: " \o customer.customer_id
        \o "\n        - Name: " \o customer.name
        \o "\n        - DOB: " \o customer.date_of_birth
        \o "\n        - Risk Rating: " \o customer.risk_rating
        \o "\n        - Onboarded: " \o customer.customer_since
        \o "\n\n        Accounts (" \o ToString(Len(accounts)) \o "):"
        \o Concat([k \in 1..Len(accounts) |-> AccountLine(accounts[k])])

\* the lines of the transactions shown
TransactionLines(shown) == Concat([k \in 1..Len(shown) |-> TransactionLine(shown[k])])

\* risk_analyst_agent.py 215-217
TransactionSection(transactions) ==
    "\n\nTransactions (" \o ToString(Len(transactions)) \o " shown below, max 10):"
        \o TransactionLines(Shown(transactions))

\* risk_analyst_agent.py 224-229
StatsText(total_balance, total_txn_volume, avg_txn_amount) ==
    "\n    \nFinancial Summary:\n    - Total Account Balance: " \o Money(total_balance)
        \o "\n    - Total Transaction Volume: " \o Money(total_txn_volume)
        \o "\n    - Average Transaction Amount: " \o Money(avg_txn_amount) \o "\n    "

\* risk_analyst_agent.py 222
AverageOf(total_txn_volume, n) == IF n # 0 THEN Average(total_txn_volume, n) ELSE 0

\* risk_analyst_agent.py 220-229, the transaction volume being summed
StatsOf(total_balance, total_txn_volume, n) ==
    StatsText(total_balance, total_txn_volume, AverageOf(total_txn_volume, n))

StatsSection(accounts, transactions) ==
    StatsOf(SumCents(accounts, "current_balance"), SumCents(transactions, "amount"),
            Len(transactions))

\* RiskAnalystAgent._format_case_for_prompt(case_data)
FormatCaseForPrompt(case_data) ==
    ProfileSection(case_data.customer, case_data.accounts)
        \o TransactionSection(case_data.transactions)
        \o StatsSection(case_data.accounts, case_data.transactions)

\* RiskAnalystAgent._format_accounts(self, accounts)
FormatAccounts(accounts) ==
    IF accounts = <<>> THEN "No accounts available."
    ELSE "Accounts (" \o ToString(Len(accounts)) \o "):\n"
         \o Join([k \in 1..Len(accounts) |->
                    "- " \o accounts[k].account_id \o ": " \o accounts[k].account_type
                        \o ", Balance: $" \o Money(accounts[k].current_balance)
                        \o ", Status: " \o accounts[k].status], "\n")

\* risk_analyst_agent.py 249-252: the numbered lines of the transactions shown
\* (the separator before the description is a non-ASCII dash in the source,
\* written "-" here)
NumberedLines(shown) ==
    Join([k \in 1..Len(shown) |->
            ToString(k) \o ". " \o shown[k].transaction_date \o ": "
                \o shown[k].transaction_type \o " $" \o Money(shown[k].amount)
                \o " - " \o shown[k].description], "\n")

\* RiskAnalystAgent._format_transactions(self, transactions)
FormatTransactions(transactions) ==
    IF transactions = <<>> THEN "No transactions available."
    ELSE "Transactions (" \o ToString(Len(transactions)) \o " shown below, max 10):\n"
         \o NumberedLines(Shown(transactions))

\* the customer and the accounts of the cases of the model
Customer ==
    [customer_id |-> "CUST-1", name |-> "Ann Lee", date_of_birth |-> "1980-02-03",
     risk_rating |-> "High", customer_since |-> "2015-06-01"]

AllAccounts ==
    <<[account_id |-> "ACC-1", account_type |-> "checking", current_balance |-> 100000,
       status |-> "active"],
      [account_id |-> "ACC-2", account_type |-> "savings", current_balance |-> 250050,
       status |-> "active"],
      [account_id |-> "ACC-3", account_type |-> "credit", current_balance |-> 0,
       status |-> "closed"],
      [account_id |-> "ACC-4", account_type |-> "loan", current_balance |-> 0 - 1234567,
       status |-> "frozen"]>>

\* the k-th transaction of a case, by occurrence: dated the k-th of the month
Txn(k) ==
    [transaction_date |-> "2024-01-" \o TwoDigits(k), amount |-> 990000 + 105 * k,
     method |-> "cash", transaction_type |-> "deposit",
     description |-> "branch deposit no " \o ToString(k)]

\* a case with a accounts and n transactions ordered by occurrence
CaseOf(case_id, a, n) ==
    [case_id |-> case_id, customer |-> Some(Customer),
     accounts |-> SubSeq(AllAccounts, 1, a), transactions |-> [k \in 1..n |-> Txn(k)]]

FormatInputs ==
    {[fn |-> "format", stage |-> "input", case |-> CaseOf("CASE-1", a, n), by |-> "",
      text |-> ""] : a \in 0..MaxAccounts, n \in 0..MaxTxns}

InitFormat ==
    /\ inv = <<>>
    /\ auditLog = <<>>
    /\ probe \in FormatInputs

FormatStep(by, text) ==
    /\ probe.fn = "format" /\ probe.stage = "input"
    /\ probe' = [probe EXCEPT !.stage = "done", !.by = by, !.text = text]
    /\ UNCHANGED <<inv, auditLog>>

\* agent._format_case_for_prompt(case)
FormatCase ==
    FormatStep("_format_case_for_prompt",
               FormatCaseForPrompt([probe.case EXCEPT !.customer = probe.case.customer[1]]))

\* agent._format_accounts(case.accounts)
FormatCaseAccounts == FormatStep("_format_accounts", FormatAccounts(probe.case.accounts))

\* agent._format_transactions(case.transactions)
FormatCaseTransactions ==
    FormatStep("_format_transactions", FormatTransactions(probe.case.transactions))

NextFormat == FormatCase \/ FormatCaseAccounts \/ FormatCaseTransactions

SpecFormat == InitFormat /\ [][NextFormat]_vars

Formatted == probe.fn = "format" /\ probe.stage = "done"

\* how many lines of the text hold the key
LinesWith(text, key) ==
    LET lines == Split(text, "\n")
    IN  Cardinality({k \in 1..Len(lines) : Contains(lines[k], key)})

RendersAccounts == probe.by \in {"_format_case_for_prompt", "_format_accounts"}

RendersTransactions == probe.by \in {"_format_case_for_prompt", "_format_transactions"}

\* C10: with the transactions ordered by occurrence, the prompt renders every
\* account exactly once and exactly min(10, n) transactions, the 10 most
\* recent of the n, each exactly once.
C10_TenMostRecentRendered ==
    Formatted =>
        LET accounts == probe.case.accounts
            transactions == probe.case.transactions
            n == Len(transactions)
        IN  /\ RendersAccounts =>
                \A k \in 1..Len(accounts) :
                    LinesWith(probe.text, accounts[k].account_id) = 1
            /\ RendersTransactions =>
                \A k \in 1..n :
                    LinesWith(probe.text, transactions[k].transaction_date)
                        = IF k > n - MaxShown THEN 1 ELSE 0

-----------------------------------------------------------------------------
(* Typed outputs (foundation_sar, not among the sources: from the data     *)
(* model of the specification) and the audit logger                        *)

Classifications == {"Structuring", "Sanctions", "Fraud", "Money_Laundering", "Other"}

RiskLevels == {"Low", "Medium", "High", "Critical"}

\* the text of a JSON string value without its quotes
Unquote(canon) == SubSeq(canon, 2, Len(canon) - 1)

HasField(fields, name) == \E k \in 1..Len(fields) : fields[k].key = Some(name)

Field(fields, name) == fields[CHOOSE k \in 1..Len(fields) : fields[k].key = Some(name)]

IsStringField(fields, name) == HasField(fields, name) /\ Field(fields, name).kind = "string"

AllStrings(items) == \A k \in 1..Len(items) : items[k].kind = "string"

\* a non-empty JSON array of strings
IsStringList(fields, name) ==
    /\ HasField(fields, name)
    /\ Field(fields, name).kind = "array"
    /\ Field(fields, name).canon # "[]"
    /\ AllStrings(JsonLoads(Field(fields, name).canon).fields)

\* a number between 0 and 1
InUnitRange(m) ==
    /\ m.kind \in {"int", "float"}
    /\ \/ StartsAt(m.canon, "0", 1)
       \/ m.canon = "1"
       \/ StartsAt(m.canon, "1.", 1)
            /\ \A k \in 3..Len(m.canon) : Char(m.canon, k) = "0"

\* RiskAnalystOutput accepts the members of the payload
RiskSchemaOK(fields) ==
    /\ IsStringField(fields, "classification")
    /\ Unquote(Field(fields, "classification").canon) \in Classifications
    /\ HasField(fields, "confidence") /\ InUnitRange(Field(fields, "confidence"))
    /\ IsStringField(fields, "risk_level")
    /\ Unquote(Field(fields, "risk_level").canon) \in RiskLevels
    /\ IsStringList(fields, "suspicious_indicators")
    /\ IsStringField(fields, "reasoning")

\* the invariant of ComplianceOfficerOutput: word_count is the number of words
\* of the narrative, and at most 120
WordCountOK(words, word_count) == word_count = ToString(words) /\ words <= WordLimit

\* ComplianceOfficerOutput accepts the members of the payload
ComplianceSchemaOK(fields) ==
    /\ IsStringField(fields, "case_id")
    /\ IsStringField(fields, "narrative")
    /\ HasField(fields, "word_count") /\ Field(fields, "word_count").kind = "int"
    /\ WordCountOK(Len(SplitWords(Unquote(Field(fields, "narrative").canon))),
                   Field(fields, "word_count").canon)
    /\ IsStringList(fields, "regulatory_citations")

\* ExplainabilityLogger.log_agent_action: one entry appended
LogAgentAction(log, entry) == Append(log, entry)

EmptyDict == [kind |-> "object", canon |-> "{}", fields |-> <<>>]

-----------------------------------------------------------------------------
(* The steps of one invocation                                             *)

\* compliance_officer_agent.py 110-111: a method looked up on the class and
\* called with the given positional arguments; the first one binds self
CallOnClass(method, args) ==
    IF Len(args) < 2 THEN
        Raise("TypeError", "RiskAnalystAgent." \o method
                \o "() missing 1 required positional argument: '"
                \o (IF method = "_format_accounts" THEN "accounts" ELSE "transactions") \o "'")
    ELSE IF method = "_format_accounts" THEN Return(FormatAccounts(args[2]))
    ELSE Return(FormatTransactions(args[2]))

\* format(x, ".1f") of a confidence kept in tenths
Tenths(n) == ToString(n \div 10) \o "." \o ToString(n % 10)

\* ComplianceOfficerAgent._format_risk_analysis_for_prompt(risk_analysis)
FormatRiskAnalysis(ra) ==
    "Classification: " \o ra.classification \o " (Confidence: " \o Tenths(ra.confidence)
        \o "%)\nRisk Level: " \o ra.risk_level \o "\nSuspicious Indicators:\n"
        \o Join([k \in 1..Len(ra.suspicious_indicators) |->
                    "- " \o ra.suspicious_indicators[k]], "\n")
        \o "\nAnalyst Reasoning: " \o ra.reasoning

NoCustomerError(attr) == "'NoneType' object has no attribute '" \o attr \o "'"

\* risk_analyst_agent.py 121: user_prompt = self._format_case_for_prompt(case_data)
RiskPrompt(case) ==
    IF case.customer = None THEN Raise("AttributeError", NoCustomerError("customer_id"))
    ELSE Return(FormatCaseForPrompt([case EXCEPT !.customer = case.customer[1]]))

\* compliance_officer_agent.py 108-113, the two class-level calls evaluated
CompliancePromptWith(case, ra, accounts, transactions) ==
    IF accounts.raised THEN accounts
    ELSE IF transactions.raised THEN transactions
    ELSE Return("Case ID: " \o case.case_id
            \o "\n            Customer: " \o case.customer[1].name
            \o " (" \o case.customer[1].customer_id \o ")"
            \o "\n            Accounts: " \o accounts.value[1]
            \o "\n            Transactions: " \o transactions.value[1]
            \o "\n            Risk Findings:\n            " \o FormatRiskAnalysis(ra))

\* compliance_officer_agent.py 108-113: the prompt f-string, its fields
\* evaluated left to right
CompliancePrompt(case, ra) ==
    IF case.customer = None THEN Raise("AttributeError", NoCustomerError("name"))
    ELSE CompliancePromptWith(case, ra,
            CallOnClass("_format_accounts", <<case.accounts>>),
            CallOnClass("_format_transactions", <<case.transactions>>))

ComposePrompt(agent, case, ra) ==
    IF agent = "RiskAnalyst" THEN RiskPrompt(case) ELSE CompliancePrompt(case, ra[1])

\* risk_analyst_agent.py 135: parsed_json = json.loads(parsed_json)
RiskLoaded(loaded) ==
    IF ~loaded.ok THEN Raise("JSONDecodeError", loaded.error) ELSE Return(AsValue(loaded))

\* risk_analyst_agent.py 134-135, text being what the extractor gave
RiskParsed(text) == IF text.raised THEN text ELSE RiskLoaded(JsonLoads(text.value[1]))

\* risk_analyst_agent.py 134-135: the extractor, then json.loads of its text
RiskParse(content) == RiskParsed(RiskExtract(content))

\* the payload of the response, or the exception of the extraction step
ParsePayload(agent, content) ==
    IF agent = "RiskAnalyst" THEN RiskParse(content) ELSE ComplianceExtract(content)

NotAMapping(kind) == "argument after ** must be a mapping, not " \o kind

\* the output built without the schema being applied
RiskOutputUnchecked(parsed) ==
    IF parsed.kind # "object"
    THEN [step |-> "schema"] @@ Raise("TypeError", NotAMapping(parsed.kind))
    ELSE [step |-> ""] @@ Return(parsed)

\* risk_analyst_agent.py 136: output = RiskAnalystOutput(**parsed_json)
RiskOutput(parsed) ==
    IF parsed.kind # "object"
    THEN [step |-> "schema"] @@ Raise("TypeError", NotAMapping(parsed.kind))
    ELSE IF ~RiskSchemaOK(parsed.fields)
    THEN [step |-> "schema"] @@ Raise("ValidationError", "validation error for RiskAnalystOutput")
    ELSE [step |-> ""] @@ Return(parsed)

\* compliance_officer_agent.py 129-130: the output, or the compliance error
ComplianceChecked(parsed, validation) ==
    IF ~validation.compliant
    THEN [step |-> "compliance"]
            @@ Raise("ValueError", "Narrative compliance failed: " \o validation.reason[1])
    ELSE [step |-> ""] @@ Return(parsed)

\* compliance_officer_agent.py 126-130: the typed output, then the rules
ComplianceOutput(parsed) ==
    IF parsed.kind # "object"
    THEN [step |-> "schema"] @@ Raise("TypeError", NotAMapping(parsed.kind))
    ELSE IF ~ComplianceSchemaOK(parsed.fields)
    THEN [step |-> "schema"]
            @@ Raise("ValidationError", "validation error for ComplianceOfficerOutput")
    ELSE ComplianceChecked(parsed,
            ValidateNarrative(Unquote(Field(parsed.fields, "narrative").canon)))

BuildOutput(agent, parsed) ==
    IF agent = "RiskAnalyst" THEN RiskOutput(parsed) ELSE ComplianceOutput(parsed)

-----------------------------------------------------------------------------
(* Invocations of the two agents on one logger                             *)

\* how many invocations the model runs, each on a case of its own
MaxInv == 2

Procs == 1..MaxInv

Agents == {"RiskAnalyst", "ComplianceOfficer"}

\* the case an invocation is given: a well-formed CaseData, or a case object
\* without its customer, on which prompt composition raises
CasesOf(p) ==
    {CaseOf("CASE-" \o ToString(p), 1, 1),
     [CaseOf("CASE-" \o ToString(p), 1, 1) EXCEPT !.customer = None]}

\* the upstream RiskAnalystOutput given to the narrative agent
RiskAnalysis ==
    [classification |-> "Structuring", confidence |-> 9, risk_level |-> "High",
     suspicious_indicators |-> <<"cash deposits below 10,000">>,
     reasoning |-> "repeated deposits just under the threshold"]

RiskPayload ==
    "{\"classification\":\"Fraud\",\"confidence\":0.9,\"risk_level\":\"High\","
        \o "\"suspicious_indicators\":[\"rapid transfers\"],\"reasoning\":\"pattern\"}"

NarrativePayload ==
    "{\"case_id\":\"CASE-1\",\"narrative\":\"Suspicious transaction on customer account\","
        \o "\"word_count\":5,\"regulatory_citations\":[\"31 CFR 1020.320\"]}"

\* what the external model call may do: raise (with or without a text),
\* answer without choices, answer with no content, answer with a text
ModelOutcomes ==
    {[kind |-> "raise", exc |-> "TimeoutError", text |-> ""],
     [kind |-> "nochoice", exc |-> "IndexError", text |-> "list index out of range"]}
    \cup
    {[kind |-> "content", exc |-> "", text |-> c] :
        c \in {None, Some(FENCE_JSON \o "\n" \o RiskPayload \o "\n" \o FENCE),
               Some(NarrativePayload), Some("I cannot help with that.")}}

Idle ==
    [pc |-> "idle", agent |-> "", case |-> None, risk_analysis |-> None,
     user_prompt |-> None, content |-> None, parsed |-> None, output |-> None,
     caught |-> None, result |-> None, error |-> None, calls |-> 0]

Init ==
    /\ inv = [p \in Procs |-> Idle]
    /\ auditLog = <<>>
    /\ probe = [fn |-> "none"]

Caught(step, r) == Some([step |-> step, exc |-> r.exc, msg |-> r.msg])

\* the invocation s once a step of the try block ended with r: the except
\* block is entered with the exception, or the local is bound to the value
Stepped(s, pc, local, step, r) ==
    IF r.raised
    THEN [s EXCEPT !.pc = "FAILED", !.caught = Caught(step, r)]
    ELSE [s EXCEPT !.pc = pc, ![local] = r.value]

SteppedOutput(s, r) == Stepped(s, "VALIDATED", "output", r.step, r)

\* analyze_case 117-118 / generate_compliance_narrative 106: the call
Start(p) ==
    /\ inv[p].pc = "idle"
    /\ \E agent \in Agents, case \in CasesOf(p) :
        inv' = [inv EXCEPT ![p] =
                    [Idle EXCEPT !.pc = "START", !.agent = agent, !.case = Some(case),
                                 !.risk_analysis =
                                    IF agent = "RiskAnalyst" THEN None ELSE Some(RiskAnalysis)]]
    /\ UNCHANGED <<auditLog, probe>>

\* analyze_case 121 / generate_compliance_narrative 108-113
BuildPrompt(p) ==
    /\ inv[p].pc = "START"
    /\ inv' = [inv EXCEPT ![p] =
            Stepped(@, "PROMPT_BUILT", "user_prompt", "prompt",
                    ComposePrompt(inv[p].agent, inv[p].case[1], inv[p].risk_analysis))]
    /\ UNCHANGED <<auditLog, probe>>

\* the model call with one retry: a first call that raises is made again
CallModelRetry(p) ==
    /\ inv[p].pc = "PROMPT_BUILT"
    /\ \E o \in ModelOutcomes :
        inv' = [inv EXCEPT ![p] =
                IF o.kind = "content"
                THEN [@ EXCEPT !.pc = "MODEL_CALLED", !.content = Some(o.text),
                               !.calls = @ + 1]
                ELSE IF inv[p].calls = 0
                THEN [@ EXCEPT !.calls = @ + 1]
                ELSE [@ EXCEPT !.pc = "FAILED", !.calls = @ + 1,
                               !.caught = Some([step |-> "model", exc |-> o.exc,
                                                msg |-> o.text])]]
    /\ UNCHANGED <<auditLog, probe>>

\* analyze_case 127-133 / generate_compliance_narrative 115-125: the one call
\* of the external model and the read of choices[0].message.content
CallModel(p) ==
    /\ inv[p].pc = "PROMPT_BUILT"
    /\ \E o \in ModelOutcomes :
        inv' = [inv EXCEPT ![p] =
                IF o.kind = "content"
                THEN [@ EXCEPT !.pc = "MODEL_CALLED", !.content = Some(o.text),
                               !.calls = @ + 1]
                ELSE [@ EXCEPT !.pc = "FAILED", !.calls = @ + 1,
                               !.caught = Some([step |-> "model", exc |-> o.exc,
                                                msg |-> o.text])]]
    /\ UNCHANGED <<auditLog, probe>>

\* analyze_case 134-135 / generate_compliance_narrative 125
Extract(p) ==
    /\ inv[p].pc = "MODEL_CALLED"
    /\ inv' = [inv EXCEPT ![p] =
            Stepped(@, "EXTRACTED", "parsed", "extract",
                    ParsePayload(inv[p].agent, inv[p].content[1]))]
    /\ UNCHANGED <<auditLog, probe>>

\* analyze_case 136 / generate_compliance_narrative 126-130
ValidateOutput(p) ==
    /\ inv[p].pc = "EXTRACTED"
    /\ inv' = [inv EXCEPT ![p] =
            SteppedOutput(@, BuildOutput(inv[p].agent, inv[p].parsed[1]))]
    /\ UNCHANGED <<auditLog, probe>>

SuccessEntry(s) ==
    IF s.agent = "RiskAnalyst" THEN
        [agent_type |-> "RiskAnalyst", action |-> "analyze_case",
         case_id |-> s.case[1].case_id,
         input_data |-> [case_summary |-> s.user_prompt[1]],
         output_data |-> s.parsed[1], reasoning |-> "Chain-of-Thought classification",
         success |-> TRUE, error_message |-> None]
    ELSE
        [agent_type |-> "ComplianceOfficerAgent", action |-> "generate_compliance_narrative",
         case_id |-> s.case[1].case_id,
         input_data |-> [case |-> s.case[1], risk_analysis |-> s.risk_analysis[1]],
         output_data |-> s.output[1], reasoning |-> "Narrative generated successfully",
         success |-> TRUE, error_message |-> None]

\* error_message=str(e)
FailureEntry(s) ==
    IF s.agent = "RiskAnalyst" THEN
        [agent_type |-> "RiskAnalystS", action |-> "analyze_case",
         case_id |-> s.case[1].case_id,
         input_data |-> [case_summary |-> s.user_prompt[1]],
         output_data |-> EmptyDict, reasoning |-> "Failed to classify case",
         success |-> FALSE, error_message |-> Some(s.caught[1].msg)]
    ELSE
        [agent_type |-> "ComplianceOfficerAgent", action |-> "generate_compliance_narrative",
         case_id |-> s.case[1].case_id,
         input_data |-> [case |-> s.case[1], risk_analysis |-> s.risk_analysis[1]],
         output_data |-> EmptyDict, reasoning |-> "Narrative generation failed",
         success |-> FALSE, error_message |-> Some(s.caught[1].msg)]

\* analyze_case 138-147 / generate_compliance_narrative 132-141
LogSuccess(p) ==
    /\ inv[p].pc = "VALIDATED"
    /\ auditLog' = LogAgentAction(auditLog, SuccessEntry(inv[p]))
    /\ inv' = [inv EXCEPT ![p].pc = "LOGGED_SUCCESS"]
    /\ UNCHANGED probe

\* analyze_case 149 / generate_compliance_narrative 142
ReturnOutput(p) ==
    /\ inv[p].pc = "LOGGED_SUCCESS"
    /\ inv' = [inv EXCEPT ![p].pc = "returned", ![p].result = inv[p].output]
    /\ UNCHANGED <<auditLog, probe>>

\* the handler of analyze_case reads user_prompt, which is not bound when
\* line 121 itself raised
HandlerFails(s) == s.agent = "RiskAnalyst" /\ s.user_prompt = None

UnboundLocal ==
    [exc |-> "UnboundLocalError",
     msg |-> "cannot access local variable 'user_prompt' where it is not associated with a value"]

\* analyze_case 151-162 / generate_compliance_narrative 144-155: the except
\* block up to the logger call
HandleException(p) ==
    /\ inv[p].pc = "FAILED"
    /\ IF HandlerFails(inv[p])
       THEN /\ inv' = [inv EXCEPT ![p].pc = "raised", ![p].error = Some(UnboundLocal)]
            /\ UNCHANGED auditLog
       ELSE /\ auditLog' = LogAgentAction(auditLog, FailureEntry(inv[p]))
            /\ inv' = [inv EXCEPT ![p].pc = "LOGGED_FAILURE"]
    /\ UNCHANGED probe

\* the exception the except block ends with
Reraised(s) ==
    IF s.agent = "RiskAnalyst"
    THEN [exc |-> "ValueError", msg |-> "No JSON content found"]
    ELSE [exc |-> "ValueError",
          msg |-> "Failed to generate compliance narrative: " \o s.caught[1].msg]

\* analyze_case 163 / generate_compliance_narrative 156
RaiseError(p) ==
    /\ inv[p].pc = "LOGGED_FAILURE"
    /\ inv' = [inv EXCEPT ![p].pc = "raised", ![p].error = Some(Reraised(inv[p]))]
    /\ UNCHANGED <<auditLog, probe>>

Next ==
    \E p \in Procs :
        \/ Start(p)
        \/ BuildPrompt(p)
        \/ CallModel(p)
        \/ Extract(p)
        \/ ValidateOutput(p)
        \/ LogSuccess(p)
        \/ ReturnOutput(p)
        \/ HandleException(p)
        \/ RaiseError(p)

Spec == Init /\ [][Next]_vars

-----------------------------------------------------------------------------
(* Properties of the invocations and of the audit log                      *)

\* the audit entries of the invocation p (its case is CASE-p)
EntriesOf(p) ==
    Cardinality({k \in 1..Len(auditLog) : auditLog[k].case_id = "CASE-" \o ToString(p)})

Finished(p) == inv[p].pc \in {"returned", "raised"}

\* C1: every invocation of either agent, whatever step fails or succeeds,
\* appends exactly one audit entry, and appends it before it returns its
\* output or propagates its error
C1_ExactlyOneAuditEntry ==
    \A p \in Procs :
        /\ EntriesOf(p) <= 1
        /\ Finished(p) => EntriesOf(p) = 1

\* C2: every entry of the audit log with success=false carries a non-empty
\* error_message, and every entry with success=true carries none
C2_ErrorMessageIffFailure ==
    \A k \in 1..Len(auditLog) :
        IF auditLog[k].success
        THEN auditLog[k].error_message = None
        ELSE auditLog[k].error_message # None /\ auditLog[k].error_message[1] # ""

\* the payload of the invocation s passes every validation step of its agent
PassedValidation(s) ==
    /\ s.parsed # None
    /\ s.parsed[1].kind = "object"
    /\ IF s.agent = "RiskAnalyst"
       THEN RiskSchemaOK(s.parsed[1].fields)
       ELSE /\ ComplianceSchemaOK(s.parsed[1].fields)
            /\ ValidateNarrative(Unquote(Field(s.parsed[1].fields, "narrative").canon)).compliant

\* C3: an invocation that returns a value returns an output that passed
\* every validation step; an invocation in which a step failed returns no
\* output and ends by raising to the caller
C3_ReturnsValidatedOrRaises ==
    \A p \in Procs :
        /\ inv[p].pc = "returned" =>
                /\ inv[p].result # None
                /\ inv[p].result = inv[p].output
                /\ inv[p].caught = None
                /\ PassedValidation(inv[p])
        /\ inv[p].caught # None =>
                /\ inv[p].result = None
                /\ inv[p].pc \in {"FAILED", "LOGGED_FAILURE", "raised"}
        /\ inv[p].pc = "raised" => inv[p].error # None /\ inv[p].result = None

\* one invocation has returned its output and another has raised
C3_Witness ==
    \E p, q \in Procs :
        /\ inv[p].pc = "returned" /\ inv[p].result # None
        /\ inv[q].pc = "raised" /\ inv[q].caught # None

\* the kind of error the failure of a step is to be raised as
ExpectedError(step) ==
    CASE step = "model" -> "TransportError"
      [] step = "extract" -> "ExtractionError"
      [] step = "schema" -> "SchemaValidationError"
      [] step = "compliance" -> "ComplianceError"
      [] OTHER -> ""

\* the failure entry of the invocation p describes the exception caught
DescribesFailure(p) ==
    \E k \in 1..Len(auditLog) :
        /\ auditLog[k].case_id = "CASE-" \o ToString(p)
        /\ ~auditLog[k].success
        /\ auditLog[k].error_message = Some(inv[p].caught[1].msg)

\* C4: the error raised to the caller identifies the kind of failure
\* (TransportError, ExtractionError, SchemaValidationError, ComplianceError),
\* and the failure audit entry describes that same failure
C4_RaisedErrorIsTyped ==
    \A p \in Procs :
        (inv[p].pc = "raised" /\ ExpectedError(inv[p].caught[1].step) # "") =>
            /\ inv[p].error[1].exc = ExpectedError(inv[p].caught[1].step)
            /\ DescribesFailure(p)

-----------------------------------------------------------------------------
(* Concurrent invocations on one agent and one logger                      *)

AllFinished == \A p \in Procs : Finished(p)

\* the positions of the audit log that hold an entry of the invocation p
PositionsOf(p) == {k \in 1..Len(auditLog) : auditLog[k].case_id = "CASE-" \o ToString(p)}

\* the entry at position k records the outcome of the invocation p itself
OwnOutcome(p, k) ==
    /\ auditLog[k].success = (inv[p].pc = "returned")
    /\ auditLog[k].action =
            (IF inv[p].agent = "RiskAnalyst" THEN "analyze_case"
             ELSE "generate_compliance_narrative")
    /\ IF inv[p].pc = "returned"
       THEN auditLog[k].output_data = inv[p].parsed[1]
       ELSE auditLog[k].error_message = Some(inv[p].caught[1].msg)

\* what the invocation p returns follows from the response it received itself
OwnResult(p) ==
    inv[p].pc = "returned" =>
        /\ inv[p].result = inv[p].output
        /\ Return(inv[p].output[1])
                = [r \in {"raised", "exc", "msg", "value"} |->
                        BuildOutput(inv[p].agent,
                            ParsePayload(inv[p].agent, inv[p].content[1]).value[1])[r]]

\* C11: with several invocations running concurrently on the same agent and
\* logger, under every interleaving the audit log ends with exactly one entry
\* per invocation, carrying that invocation's own case_id and outcome (none
\* lost, duplicated or mixed), and no result depends on another invocation
C11_OneOwnEntryPerInvocation ==
    AllFinished =>
        /\ Len(auditLog) = MaxInv
        /\ \A p \in Procs :
            /\ Cardinality(PositionsOf(p)) = 1
            /\ \A k \in PositionsOf(p) : OwnOutcome(p, k)
            /\ OwnResult(p)

\* the same for the invocations whose handler reaches the logger call: every
\* entry of the log is the one entry of a distinct invocation
LoggedOnceEach ==
    /\ \A p \in Procs : Cardinality(PositionsOf(p)) <= 1
    /\ \A p \in Procs :
        (Finished(p) /\ ~HandlerFails(inv[p])) =>
            /\ Cardinality(PositionsOf(p)) = 1
            /\ \A k \in PositionsOf(p) : OwnOutcome(p, k)
            /\ OwnResult(p)

-----------------------------------------------------------------------------
(* The order of the steps of one invocation                                *)

\* the positions an invocation may move to from each position
StepOrder ==
    {<<"idle", "START">>,
     <<"START", "PROMPT_BUILT">>, <<"PROMPT_BUILT", "MODEL_CALLED">>,
     <<"MODEL_CALLED", "EXTRACTED">>, <<"EXTRACTED", "VALIDATED">>,
     <<"VALIDATED", "LOGGED_SUCCESS">>, <<"LOGGED_SUCCESS", "returned">>,
     <<"START", "FAILED">>, <<"PROMPT_BUILT", "FAILED">>, <<"MODEL_CALLED", "FAILED">>,
     <<"EXTRACTED", "FAILED">>,
     <<"FAILED", "LOGGED_FAILURE">>, <<"FAILED", "raised">>, <<"LOGGED_FAILURE", "raised">>}

\* the model is called at most once, and a success entry belongs to an
\* invocation whose model call, extraction and validation all succeeded
CalledOnceLoggedLast ==
    \A p \in Procs :
        /\ inv[p].calls <= 1
        /\ \A k \in PositionsOf(p) :
            auditLog[k].success =>
                /\ inv[p].pc \in {"LOGGED_SUCCESS", "returned"}
                /\ inv[p].calls = 1
                /\ inv[p].user_prompt # None /\ inv[p].content # None
                /\ inv[p].parsed # None /\ inv[p].output # None
                /\ inv[p].caught = None

\* every step moves one invocation along the order; the model is called on
\* the step that leaves PROMPT_BUILT and on no other; an entry with
\* success=true is appended on the step that leaves VALIDATED and on no other
InOrder ==
    \A p \in Procs :
        /\ inv'[p].pc # inv[p].pc => <<inv[p].pc, inv'[p].pc>> \in StepOrder
        /\ inv'[p].calls # inv[p].calls =>
                inv[p].pc = "PROMPT_BUILT" /\ inv'[p].calls = inv[p].calls + 1
        /\ (inv[p].pc # "idle" /\ inv'[p].pc # inv[p].pc)
                => \A q \in Procs \ {p} : inv'[q] = inv[q]
        /\ (Len(auditLog') > Len(auditLog) /\ inv'[p].pc # inv[p].pc
                /\ auditLog'[Len(auditLog')].success)
                => inv[p].pc = "VALIDATED"

\* C12: each invocation is linear with no retry: the model is called at most
\* once, the steps occur only in the order prompt built, model called,
\* extracted, validated, logged, and a success=true entry is written only
\* after the model call, extraction and every validation step succeeded
C12_LinearNoRetry == [](CalledOnceLoggedLast) /\ [][InOrder]_vars

\* an invocation went through every step, called the model once and returned
C12_Witness ==
    \E p \in Procs :
        /\ inv[p].pc = "returned"
        /\ inv[p].calls = 1
        /\ \E k \in PositionsOf(p) : auditLog[k].success

-----------------------------------------------------------------------------
(* The narrative agent on valid inputs                                     *)

\* an invocation of generate_compliance_narrative on a well-formed CaseData
\* and an upstream RiskAnalystOutput
NarrativeOnValidInputs(s) ==
    /\ s.agent = "ComplianceOfficer"
    /\ s.case # None /\ s.case[1].customer # None
    /\ s.risk_analysis # None

\* C13: generate_compliance_narrative on a valid CaseData and upstream
\* RiskAnalystOutput builds its prompt, and reaches the failure state only
\* when the model call, extraction, schema or compliance step fails (so that
\* a good response leads to the logged-success state and the output)
C13_NarrativeFailsOnlyAfterPrompt ==
    \A p \in Procs :
        NarrativeOnValidInputs(inv[p]) =>
            /\ inv[p].pc \notin {"idle", "START"} => inv[p].user_prompt # None
            /\ inv[p].caught # None =>
                    inv[p].caught[1].step \in {"model", "extract", "schema", "compliance"}
            /\ inv[p].pc = "raised" => inv[p].calls = 1

\* what the code does instead: the invocation fails in prompt composition,
\* before any model call, and never returns
NarrativeStopsAtPrompt ==
    \A p \in Procs :
        inv[p].agent = "ComplianceOfficer" =>
            /\ inv[p].pc \in {"START", "FAILED", "LOGGED_FAILURE", "raised"}
            /\ inv[p].calls = 0
            /\ inv[p].caught # None =>
                    inv[p].caught[1].step = "prompt"
                        /\ inv[p].caught[1].exc \in {"TypeError", "AttributeError"}

=============================================================================
